---- MODULE Spec2Model ----
(***************************************************************************)
(* Model of udiskie/udisks1.py: the Daemon that caches the device states   *)
(* of the UDisks service (CachedDevice snapshots in Daemon._devices),      *)
(* tracks jobs (Daemon._jobs), keeps error messages (Daemon._errors) and   *)
(* turns the four UDisks signals into events.                              *)
(*                                                                         *)
(* Python values are modelled as follows.  A property value that may be    *)
(* True, False or None is one of the strings "True", "False", "None".      *)
(* A dict is a function whose DOMAIN is the set of its keys.  The Python   *)
(* object None, where a device is expected, is the record NoDevice.        *)
(* Python objects have identity: within one handler the CachedDevice       *)
(* objects live in a heap (reference -> fields) and Daemon._devices maps   *)
(* object paths to references; between handlers only the objects the       *)
(* Daemon still references remain, so the state keeps their fields.        *)
(***************************************************************************)
EXTENDS Integers, Sequences, FiniteSets, TLC

\* ---------------------------------------------------------------- bounds
MaxSteps == 2           \* steps after construction, in Spec
MaxLongSteps == 3       \* steps after construction, in SpecLong
MaxEventSteps == 4      \* steps after construction, in SpecEvents
MaxQueued == 1          \* signals the bus holds during construction
MaxUnmountSteps == 6    \* steps after construction, in SpecUnmount
MaxHandlerSteps == 3    \* steps after construction, in SpecHandlers

\* ------------------------------------------------------------ input sets
Ids == {"/dev/sdb1", "/dev/sdc"}
None == "None"
Percentages == {0, 50}
Messages == {"busy"}
ExternalHandlers == {"app"}
ConnectableEvents == {"device_changed", "media_removed"}
HandlerEvents == {"device_added", "device_removed", "device_changed"}
JobIds ==
  {"FilesystemMount", "FilesystemUnmount", "LuksUnlock", "LuksLock",
   "DriveDetach", "DriveEject", "FilesystemCheck"}

\* ------------------------------------------------------------ Python dicts
DictSet(d, k, v) == [x \in DOMAIN d \cup {k} |-> IF x = k THEN v ELSE d[x]]

DictDel(d, k) == [x \in DOMAIN d \ {k} |-> d[x]]

EmptyDict == [x \in {} |-> None]

PyBool(b) == IF b THEN "True" ELSE "False"

Truthy(v) == v = "True"

\* ------------------------------------------------------- the UDisks service
\* The DBus object of one device path: exists = FALSE is a path with no DBus
\* object, for which every property read raises the proxy's Exception.
NoObject ==
  [exists |-> FALSE, DeviceIsMounted |-> FALSE,
   DeviceIsMediaAvailable |-> FALSE, LuksHolder |-> None]

LiveObjects(p) ==
  {NoObject} \cup
  [exists : {TRUE}, DeviceIsMounted : BOOLEAN,
   DeviceIsMediaAvailable : BOOLEAN, LuksHolder : {None} \cup (Ids \ {p})]

\* OnlineDevice.is_valid
OnlineIsValid(lv, p) == p \in Ids /\ lv[p].exists

\* Sniffer.paths: EnumerateDevices
SnifferPaths(lv) == {p \in Ids : lv[p].exists}

\* --------------------------------------------------------------- snapshots
NoDevice == [is_none |-> TRUE]

\* CachedDevice.__init__ applied to the OnlineDevice of path p: every
\* property is read once; a read that raises leaves None.  is_unlocked keeps
\* the OnlineDevice of the LUKS holder (here: its path), and the setter of
\* luks_cleartext_holder keeps that device's object path.
CachedDevice(lv, p) ==
  IF lv[p].exists
  THEN [object_path |-> p, is_valid |-> TRUE,
        is_mounted |-> PyBool(lv[p].DeviceIsMounted),
        has_media |-> PyBool(lv[p].DeviceIsMediaAvailable),
        is_unlocked |-> lv[p].LuksHolder,
        _luks_cleartext_holder |-> lv[p].LuksHolder]
  ELSE [object_path |-> p, is_valid |-> FALSE,
        is_mounted |-> None, has_media |-> None,
        is_unlocked |-> None, _luks_cleartext_holder |-> None]

\* The property values an application reads from a device object
ObservedProperties == {"object_path", "is_valid", "is_mounted", "has_media"}

Observe(dev) == [k \in ObservedProperties |-> dev[k]]

\* Sniffer.get: an OnlineDevice, whose properties are read from the service
\* when they are accessed (None where the read raises)
SnifferGet(lv, object_path) == Observe(CachedDevice(lv, object_path))

\* The getter _CachedDeviceProperty makes for luks_cleartext_holder:
\* self._daemon[self._luks_cleartext_holder], where CachedDevice.__init__
\* sets _daemon to device.udisks, the Sniffer that made the OnlineDevice.
luks_cleartext_holder(dev, lv) == SnifferGet(lv, dev._luks_cleartext_holder)

\* DeviceBase.__nonzero__ of a CachedDevice, and bool(None)
DeviceTruthy(dev) == dev # NoDevice /\ dev.is_valid

\* ------------------------------------------------------------------- heap
FreshRefs == {"obj1", "obj2"}

\* The Daemon's memory at the start of a handler: every cached object is
\* referenced by its object path.
Load(devices) == [heap |-> devices, devs |-> [p \in DOMAIN devices |-> p]]

\* The fields of the objects Daemon._devices references.
Store(m) == [p \in DOMAIN m.devs |-> m.heap[m.devs[p]]]

NewRef(m) == CHOOSE r \in FreshRefs : r \notin DOMAIN m.heap

Deref(m, r) == IF r = None THEN NoDevice ELSE m.heap[r]

\* Daemon.get / Daemon.__getitem__
get(m, object_path) ==
  IF object_path \in DOMAIN m.devs THEN m.devs[object_path] ELSE None

\* the cached entry dropped where the code flags a copy of it
_invalidate_discard(m, object_path) ==
  [heap |-> m.heap, devs |-> DictDel(m.devs, object_path)]

\* is_valid set on the cached object itself, without the copy
_invalidate_in_place(m, object_path) ==
  IF object_path \in DOMAIN m.devs
  THEN [m EXCEPT !.heap[m.devs[object_path]].is_valid = FALSE]
  ELSE m

\* Daemon._invalidate
_invalidate(m, object_path) ==
  IF object_path \in DOMAIN m.devs
  THEN LET r == NewRef(m)
           copied == [m.heap[m.devs[object_path]] EXCEPT !.is_valid = FALSE]
       IN  [heap |-> DictSet(m.heap, r, copied),
            devs |-> DictSet(m.devs, object_path, r)]
  ELSE m

\* update that stores valid devices only
update_valid_only(m, lv, object_path) ==
  LET r == NewRef(m)
      cached == CachedDevice(lv, object_path)
      m1 == [heap |-> DictSet(m.heap, r, cached), devs |-> m.devs]
  IN  IF cached.is_valid
      THEN [mem |-> [m1 EXCEPT !.devs = DictSet(@, object_path, r)], ret |-> r]
      ELSE [mem |-> _invalidate(m1, object_path), ret |-> r]

\* Daemon.update: the new memory and the reference it returns
update(m, lv, object_path) ==
  LET r == NewRef(m)
      cached == CachedDevice(lv, object_path)
      m1 == [heap |-> DictSet(m.heap, r, cached), devs |-> m.devs]
  IN  IF cached.is_valid \/ object_path \notin DOMAIN m.devs
      THEN [mem |-> [m1 EXCEPT !.devs = DictSet(@, object_path, r)], ret |-> r]
      ELSE [mem |-> _invalidate(m1, object_path), ret |-> r]

\* Daemon._sync
_sync(lv) == [p \in SnifferPaths(lv) |-> CachedDevice(lv, p)]

\* every cached path, whatever its device's validity
paths_all(devices) == DOMAIN devices

\* Daemon.paths
paths(devices) == {p \in DOMAIN devices : DeviceTruthy(devices[p])}

\* UDisks.__iter__: the devices of paths() that are true
__iter__(devices) ==
  {devices[p] : p \in {q \in paths(devices) : DeviceTruthy(devices[q])}}

\* ------------------------------------------------------------------ events
\* Daemon.__init__: event_names
EventStems ==
  {"device_add", "device_remov", "device_mount", "device_unmount",
   "media_add", "media_remov", "device_unlock", "device_lock", "device_chang"}

EventNames ==
  {stem \o suffix : stem \in EventStems, suffix \in {"ed", "ing"}}
    \cup {"job_failed"}

\* What one signal handler has done so far: the events it triggered, the
\* calls of external handlers in the order they were made, and the exception
\* that ended it (None if it returned).
Quiet == [published |-> <<>>, delivered |-> <<>>, raised |-> None]

RECURSIVE trigger(_, _, _, _)

\* Daemon._on_device_changed
_on_device_changed(e, hs, old_state, new_state) ==
  IF old_state = NoDevice
  THEN [e EXCEPT !.raised = "AttributeError"]
  ELSE LET media_added ==
             Truthy(new_state.has_media) /\ ~Truthy(old_state.has_media)
           media_removed ==
             Truthy(old_state.has_media) /\ ~Truthy(new_state.has_media)
       IN  IF media_added THEN trigger(e, hs, "media_added", <<new_state>>)
           ELSE IF media_removed
                THEN trigger(e, hs, "media_removed", <<new_state>>)
                ELSE e

\* Emitter.trigger, the loop over the handlers of one event: each is called
\* in subscription order, synchronously; an exception ends the loop.
RECURSIVE Dispatch(_, _, _, _)
Dispatch(e, hs, handlers, ev) ==
  IF handlers = <<>> \/ e.raised # None
  THEN e
  ELSE LET h == Head(handlers)
           e1 == IF h = "_on_device_changed"
                 THEN _on_device_changed(e, hs, ev.args[1], ev.args[2])
                 ELSE [e EXCEPT !.delivered =
                                  Append(@, [handler |-> h, event |-> ev])]
       IN  Dispatch(e1, hs, Tail(handlers), ev)

\* Emitter.trigger; an event name the Emitter was not constructed with has
\* no handler list to look up
trigger(e, hs, name, args) ==
  LET ev == [name |-> name, args |-> args]
      e1 == [e EXCEPT !.published = Append(@, ev)]
  IN  IF name \in DOMAIN hs
      THEN Dispatch(e1, hs, hs[name], ev)
      ELSE [e1 EXCEPT !.raised = "KeyError"]

\* Emitter.connect
connect(hs, name, handler) == [hs EXCEPT ![name] = Append(@, handler)]

\* Emitter.__init__(event_names), then line 527
InitialHandlers ==
  connect([n \in EventNames |-> <<>>], "device_changed", "_on_device_changed")

\* ---------------------------------------------------- UDisks event listeners
\* device-added that caches every device of the service anew
_device_added_resync(devices, lv, hs, object_path) ==
  LET synced == _sync(lv)
      new_state == IF object_path \in DOMAIN synced
                   THEN synced[object_path] ELSE CachedDevice(lv, object_path)
  IN  [devices |-> DictSet(synced, object_path, new_state),
       view |-> DictSet(synced, object_path, new_state),
       run |-> trigger(Quiet, hs, "device_added", <<new_state>>)]

\* Daemon._device_added
_device_added(devices, lv, hs, object_path) ==
  LET u == update(Load(devices), lv, object_path)
      new_state == Deref(u.mem, u.ret)
  IN  [devices |-> Store(u.mem), view |-> Store(u.mem),
       run |-> trigger(Quiet, hs, "device_added", <<new_state>>)]

\* device-removed that triggers the event before it invalidates
_device_removed_late(devices, hs, object_path) ==
  LET m0 == Load(devices)
      old_state == get(m0, object_path)
      m1 == _invalidate(m0, object_path)
  IN  [devices |-> Store(m1), view |-> devices,
       run |-> trigger(Quiet, hs, "device_removed", <<Deref(m0, old_state)>>)]

\* Daemon._device_removed
_device_removed(devices, hs, object_path) ==
  LET m0 == Load(devices)
      old_state == get(m0, object_path)
      m1 == _invalidate(m0, object_path)
  IN  [devices |-> Store(m1), view |-> Store(m1),
       run |-> trigger(Quiet, hs, "device_removed", <<Deref(m1, old_state)>>)]

\* Daemon._device_changed
_device_changed(devices, lv, hs, object_path) ==
  LET m0 == Load(devices)
      old_state == get(m0, object_path)
      u == update(m0, lv, object_path)
  IN  [devices |-> Store(u.mem), view |-> Store(u.mem),
       run |-> trigger(Quiet, hs, "device_changed",
                       <<Deref(u.mem, old_state), Deref(u.mem, u.ret)>>)]

\* ---------------------------------------------------------------------- jobs
\* a Job that keeps the kind and drops the percentage
Job_unmeasured(job_id, percentage) == [job_id |-> job_id, percentage |-> 0]

Job(job_id, percentage) == [job_id |-> job_id, percentage |-> percentage]

_action_mapping ==
  [FilesystemMount |-> "mount", FilesystemUnmount |-> "unmount",
   LuksUnlock |-> "unlock", LuksLock |-> "lock",
   DriveDetach |-> "detach", DriveEject |-> "eject"]

\* the detach stem taken from the action's name
_event_mapping_detach ==
  [mount |-> "device_mount", unmount |-> "device_unmount",
   unlock |-> "device_unlock", lock |-> "device_lock",
   eject |-> "media_remov", detach |-> "device_detach"]

_event_mapping ==
  [mount |-> "device_mount", unmount |-> "device_unmount",
   unlock |-> "device_unlock", lock |-> "device_lock",
   eject |-> "media_remov", detach |-> "device_remov"]

Actions == DOMAIN _event_mapping

\* Daemon._check_success[job_id](dev): "True" or "False" by the truth value
\* of what the lambda returns, "AttributeError" if it reads a property of
\* None.  The truth value of the OnlineDevice kept in is_unlocked is its
\* is_valid, read from the service when the lambda's result is tested.
_check_success(job_id, dev, lv) ==
  CASE job_id = "FilesystemMount" ->
         IF dev = NoDevice THEN "AttributeError"
         ELSE PyBool(Truthy(dev.is_mounted))
    [] job_id = "FilesystemUnmount" ->
         PyBool(~DeviceTruthy(dev) \/ ~Truthy(dev.is_mounted))
    [] job_id = "LuksUnlock" ->
         IF dev = NoDevice THEN "AttributeError"
         ELSE PyBool(OnlineIsValid(lv, dev.is_unlocked))
    [] job_id = "LuksLock" ->
         PyBool(~DeviceTruthy(dev) \/ ~OnlineIsValid(lv, dev.is_unlocked))
    [] job_id = "DriveDetach" -> PyBool(~DeviceTruthy(dev))
    [] job_id = "DriveEject" ->
         PyBool(~DeviceTruthy(dev) \/ ~Truthy(dev.has_media))

\* dict.pop(key, "") of an error slot: the value
SlotMessage(errors, action, object_path) ==
  IF object_path \in DOMAIN errors[action]
  THEN errors[action][object_path] ELSE ""

\* dict.get in place of dict.pop: the message stays in its slot
SlotPop_kept(errors, action, object_path) == errors

\* dict.pop(key, "") of an error slot: the dict afterwards (line 630)
SlotPop(errors, action, object_path) ==
  [errors EXCEPT ![action] = DictDel(@, object_path)]

\* Daemon.set_error
set_error(errors, object_path, action, message) ==
  [errors EXCEPT ![action] = DictSet(@, object_path, message)]

\* a kind without an Action taken for an unmount
ResolvedJobId_fallback(jobs, object_path, job_in_progress, job_id) ==
  LET resolved == IF ~job_in_progress /\ object_path \in DOMAIN jobs
                  THEN jobs[object_path].job_id ELSE job_id
  IN  IF resolved \in DOMAIN _action_mapping
      THEN resolved ELSE "FilesystemUnmount"

\* The job id Daemon._device_job_changed goes by (lines 613-614)
ResolvedJobId(jobs, object_path, job_in_progress, job_id) ==
  IF ~job_in_progress /\ object_path \in DOMAIN jobs
  THEN jobs[object_path].job_id ELSE job_id

\* Daemon._device_job_changed
_device_job_changed(devices, jobs, errors, lv, hs, object_path, job_in_progress, job_id0, job_percentage) ==
  LET job_id == ResolvedJobId(jobs, object_path, job_in_progress, job_id0)
      same == [jobs |-> jobs, errors |-> errors, view |-> devices,
               run |-> Quiet]
  IN  IF job_id \notin DOMAIN _action_mapping
      THEN same
      ELSE
        LET action == _action_mapping[job_id]
            event_name == _event_mapping[action]
            dev == IF object_path \in DOMAIN devices
                   THEN devices[object_path] ELSE NoDevice
        IN  IF job_in_progress
            THEN [same EXCEPT
                    !.run = trigger(Quiet, hs, event_name \o "ing",
                                    <<dev, job_percentage>>),
                    !.jobs = DictSet(jobs, object_path,
                                     Job(job_id, job_percentage))]
            ELSE
              LET ok == _check_success(job_id, dev, lv)
              IN  CASE ok = "AttributeError" ->
                         [same EXCEPT !.run.raised = "AttributeError"]
                    [] ok = "True" ->
                         LET e == trigger(Quiet, hs, event_name \o "ed",
                                          <<dev>>)
                         IN  IF object_path \in DOMAIN jobs
                             THEN [same EXCEPT
                                     !.run = e,
                                     !.jobs = DictDel(jobs, object_path)]
                             ELSE [same EXCEPT
                                     !.run = [e EXCEPT !.raised = "KeyError"]]
                    [] ok = "False" ->
                         LET message ==
                               SlotMessage(errors, action, object_path)
                         IN  [same EXCEPT
                                !.errors = SlotPop(errors, action, object_path),
                                !.run = trigger(Quiet, hs, "job_failed",
                                                <<dev, "device_" \o action,
                                                  message>>)]

\* ------------------------------------------------------------------- state
VARIABLES
  live,       \* the UDisks service: object path -> DBus object
  pc,         \* where Daemon.__init__ is, then "running" (the main loop)
  receivers,  \* the signals with a receiver registered on the bus
  queue,      \* signals the bus holds until the main loop runs
  _devices,   \* Daemon._devices
  _jobs,      \* Daemon._jobs
  _errors,    \* Daemon._errors
  handlers,   \* the Emitter's table: event name -> handlers in order
  last,       \* the signal the main loop has just dispatched and its effects
  used,       \* the number of steps taken since construction
  outlived    \* history: the error slots <<action, path>> whose message was
              \* registered before the last terminal notification of the
              \* action for the path

vars ==
  <<live, pc, receivers, queue, _devices, _jobs, _errors, handlers, last, used,
    outlived>>

SignalNames ==
  {"DeviceAdded", "DeviceRemoved", "DeviceChanged", "DeviceJobChanged"}

Signal(name, object_path, job_in_progress, job_id, job_percentage) ==
  [signal |-> name, object_path |-> object_path,
   job_in_progress |-> job_in_progress, job_id |-> job_id,
   job_percentage |-> job_percentage]

DeviceSignal(name, object_path) == Signal(name, object_path, FALSE, None, 0)

NoSignal == DeviceSignal(None, None)

Idle ==
  [signal |-> NoSignal, resolved |-> None, recorded |-> FALSE,
   published |-> <<>>, delivered |-> <<>>, raised |-> None,
   view |-> EmptyDict]

\* The devices the service may have when the Daemon is constructed: none, or
\* an unmounted device with media and no LUKS holder.
PlainObject ==
  [exists |-> TRUE, DeviceIsMounted |-> FALSE,
   DeviceIsMediaAvailable |-> TRUE, LuksHolder |-> None]

\* Daemon.__init__ up to line 527
Init ==
  /\ live \in [Ids -> {NoObject, PlainObject}]
  /\ pc = "receivers"
  /\ receivers = {}
  /\ queue = <<>>
  /\ _devices = EmptyDict
  /\ _jobs = EmptyDict
  /\ _errors = [a \in Actions |-> EmptyDict]
  /\ handlers = InitialHandlers
  /\ last = Idle
  /\ used = 0
  /\ outlived = {}

\* Daemon.__init__, lines 528-544
AddSignalReceivers ==
  /\ pc = "receivers"
  /\ pc' = "sync"
  /\ receivers' = SignalNames
  /\ UNCHANGED <<live, queue, _devices, _jobs, _errors, handlers, last, used>>
  /\ UNCHANGED outlived

\* Daemon.__init__, line 545
Sync ==
  /\ pc = "sync"
  /\ pc' = "running"
  /\ _devices' = _sync(live)
  /\ UNCHANGED <<live, receivers, queue, _jobs, _errors, handlers, last, used>>
  /\ UNCHANGED outlived

\* The signal the service sends when the DBus object of object_path changes
BusSignal(object_path, old, new) ==
  DeviceSignal(IF ~old.exists THEN "DeviceAdded"
               ELSE IF ~new.exists THEN "DeviceRemoved"
               ELSE "DeviceChanged", object_path)

\* The service changes a device while __init__ is between registering the
\* receivers and _sync: the bus holds the signal until the main loop runs.
WindowChange(object_path, obj) ==
  /\ pc = "sync"
  /\ Len(queue) < MaxQueued
  /\ obj # live[object_path]
  /\ live' = [live EXCEPT ![object_path] = obj]
  /\ queue' = Append(queue, BusSignal(object_path, live[object_path], obj))
  /\ UNCHANGED <<pc, receivers, _devices, _jobs, _errors, handlers, last, used>>
  /\ UNCHANGED outlived

\* The service changes a device while the main loop runs; its signals come
\* as the actions below.
LiveChange(object_path, obj) ==
  /\ pc = "running"
  /\ queue = <<>>
  /\ obj # live[object_path]
  /\ live' = [live EXCEPT ![object_path] = obj]
  /\ last' = Idle
  /\ UNCHANGED <<pc, receivers, queue, _devices, _jobs, _errors, handlers>>
  /\ UNCHANGED outlived

\* What the receiver of sig does to the Daemon
Receive(sig) ==
  LET p == sig.object_path
      same == [devices |-> _devices, jobs |-> _jobs, errors |-> _errors]
  IN  CASE sig.signal = "DeviceAdded" ->
             _device_added(_devices, live, handlers, p) @@ same
        [] sig.signal = "DeviceRemoved" ->
             _device_removed(_devices, handlers, p) @@ same
        [] sig.signal = "DeviceChanged" ->
             _device_changed(_devices, live, handlers, p) @@ same
        [] sig.signal = "DeviceJobChanged" ->
             _device_job_changed(_devices, _jobs, _errors, live, handlers, p,
               sig.job_in_progress, sig.job_id, sig.job_percentage) @@ same

\* The error slots whose message is older than the last terminal
\* notification of their action for their path, after the receiver of sig
\* has left r: the slots that were so and still hold their message, and the
\* slot of a terminal notification that published its outcome, returned
\* without an exception and left the message where it was.
Outlived(slots, sig, r) ==
  LET p == sig.object_path
      kept == {s \in slots : s[2] \in DOMAIN r.errors[s[1]]}
      job_id == ResolvedJobId(_jobs, p, sig.job_in_progress, sig.job_id)
  IN  IF /\ sig.signal = "DeviceJobChanged"
         /\ ~sig.job_in_progress
         /\ job_id \in DOMAIN _action_mapping
         /\ r.run.published # <<>>
         /\ r.run.raised = None
         /\ p \in DOMAIN r.errors[_action_mapping[job_id]]
      THEN kept \cup {<<_action_mapping[job_id], p>>}
      ELSE kept

\* The main loop dispatches sig to its receiver
Deliver(sig) ==
  LET r == Receive(sig)
  IN  /\ pc = "running"
      /\ sig.signal \in receivers
      /\ _devices' = r.devices
      /\ _jobs' = r.jobs
      /\ _errors' = r.errors
      /\ last' = [signal |-> sig,
                  resolved |-> IF sig.signal = "DeviceJobChanged"
                               THEN ResolvedJobId(_jobs, sig.object_path,
                                      sig.job_in_progress, sig.job_id)
                               ELSE None,
                  recorded |-> sig.signal = "DeviceJobChanged"
                               /\ sig.object_path \in DOMAIN _jobs,
                  published |-> r.run.published,
                  delivered |-> r.run.delivered,
                  raised |-> r.run.raised,
                  view |-> r.view]
      /\ outlived' = Outlived(outlived, sig, r)
      /\ UNCHANGED <<live, pc, receivers, handlers>>

DeviceAdded(object_path) ==
  /\ queue = <<>>
  /\ Deliver(DeviceSignal("DeviceAdded", object_path))
  /\ UNCHANGED queue

DeviceRemoved(object_path) ==
  /\ queue = <<>>
  /\ Deliver(DeviceSignal("DeviceRemoved", object_path))
  /\ UNCHANGED queue

DeviceChanged(object_path) ==
  /\ queue = <<>>
  /\ Deliver(DeviceSignal("DeviceChanged", object_path))
  /\ UNCHANGED queue

DeviceJobChanged(object_path, job_in_progress, job_id, job_percentage) ==
  /\ queue = <<>>
  /\ Deliver(Signal("DeviceJobChanged", object_path, job_in_progress, job_id,
                    job_percentage))
  /\ UNCHANGED queue

\* The main loop starts with the signals the bus held during __init__
DispatchQueued ==
  /\ queue # <<>>
  /\ Deliver(Head(queue))
  /\ queue' = Tail(queue)
  /\ UNCHANGED used

\* The application calls Daemon.set_error
SetError(object_path, action, message) ==
  /\ pc = "running"
  /\ queue = <<>>
  /\ _errors' = set_error(_errors, object_path, action, message)
  /\ last' = Idle
  /\ outlived' = outlived \ {<<action, object_path>>}
  /\ UNCHANGED <<live, pc, receivers, queue, _devices, _jobs, handlers>>

\* The application connects a handler
Connect(name, handler) ==
  /\ pc = "running"
  /\ queue = <<>>
  /\ \A i \in 1..Len(handlers[name]) : handlers[name][i] # handler
  /\ handlers' = connect(handlers, name, handler)
  /\ last' = Idle
  /\ UNCHANGED <<live, pc, receivers, queue, _devices, _jobs, _errors>>
  /\ UNCHANGED outlived

Budget(max) == used < max /\ used' = used + 1

Construction == AddSignalReceivers \/ Sync

ServiceStep == \E p \in Ids : \E obj \in LiveObjects(p) : LiveChange(p, obj)

DeviceSignalStep ==
  \/ \E p \in Ids : DeviceAdded(p)
  \/ \E p \in Ids : DeviceRemoved(p)
  \/ \E p \in Ids : DeviceChanged(p)

JobSignalStep ==
  \E p \in Ids, in_progress \in BOOLEAN, job_id \in JobIds :
    \E percentage \in (IF in_progress THEN Percentages ELSE {0}) :
      DeviceJobChanged(p, in_progress, job_id, percentage)

SetErrorStep ==
  \E p \in Ids, a \in Actions, msg \in Messages : SetError(p, a, msg)

ConnectStep ==
  \E n \in ConnectableEvents, h \in ExternalHandlers : Connect(n, h)

\* The Daemon, the service and an application that sets error messages,
\* for max steps after construction
System(max) ==
  \/ Construction
  \/ Budget(max) /\ ServiceStep
  \/ Budget(max) /\ DeviceSignalStep
  \/ Budget(max) /\ JobSignalStep
  \/ Budget(max) /\ SetErrorStep

Next == System(MaxSteps)

Spec == Init /\ [][Next]_vars

NextLong == System(MaxLongSteps)

SpecLong == Init /\ [][NextLong]_vars

\* The Daemon, the service and an application that connects handlers
NextEvents ==
  \/ Construction
  \/ Budget(MaxEventSteps) /\ ServiceStep
  \/ Budget(MaxEventSteps) /\ DeviceSignalStep
  \/ Budget(MaxEventSteps) /\ ConnectStep

SpecEvents == Init /\ [][NextEvents]_vars

\* Construction with a service that changes while it runs
NextStartup ==
  \/ Construction
  \/ \E p \in Ids : \E obj \in LiveObjects(p) : WindowChange(p, obj)
  \/ DispatchQueued

SpecStartup == Init /\ [][NextStartup]_vars

\* The unmount jobs of a device whose mounted state changes, with an
\* application that registers a message for them
UnmountService ==
  \E p \in Ids, mounted \in BOOLEAN :
    LiveChange(p, [PlainObject EXCEPT !.DeviceIsMounted = mounted])

UnmountChanged == \E p \in Ids : DeviceChanged(p)

UnmountJob ==
  \E p \in Ids, in_progress \in BOOLEAN :
    DeviceJobChanged(p, in_progress, "FilesystemUnmount", 0)

UnmountError == \E p \in Ids, msg \in Messages : SetError(p, "unmount", msg)

NextUnmount ==
  \/ Construction
  \/ Budget(MaxUnmountSteps) /\ UnmountService
  \/ Budget(MaxUnmountSteps) /\ UnmountChanged
  \/ Budget(MaxUnmountSteps) /\ UnmountJob
  \/ Budget(MaxUnmountSteps) /\ UnmountError

SpecUnmount == Init /\ [][NextUnmount]_vars

\* The application connects a handler to a device event
HandlerStep ==
  \E n \in HandlerEvents, h \in ExternalHandlers : Connect(n, h)

\* The Daemon, the service and an application with handlers of the device
\* events
NextHandlers ==
  \/ Construction
  \/ Budget(MaxHandlerSteps) /\ ServiceStep
  \/ Budget(MaxHandlerSteps) /\ DeviceSignalStep
  \/ Budget(MaxHandlerSteps) /\ HandlerStep

SpecHandlers == Init /\ [][NextHandlers]_vars

\* ------------------------------------------------------------- observations
\* Daemon.get as the application sees it: the cached device or None
RegistryGet(devices, object_path) ==
  IF object_path \in DOMAIN devices THEN devices[object_path] ELSE NoDevice

Published(name) ==
  \E i \in 1..Len(last.published) : last.published[i].name = name

Terminal ==
  last.signal.signal = "DeviceJobChanged" /\ ~last.signal.job_in_progress

TerminalAction == Terminal /\ last.resolved \in DOMAIN _action_mapping

\* The success predicates as the specification's table words them
TableSuccess(action, dev, lv) ==
  CASE action = "mount" -> dev # NoDevice /\ Truthy(dev.is_mounted)
    [] action = "unmount" -> ~DeviceTruthy(dev) \/ ~Truthy(dev.is_mounted)
    [] action = "unlock" ->
         dev # NoDevice /\ OnlineIsValid(lv, dev.is_unlocked)
    [] action = "lock" ->
         ~DeviceTruthy(dev) \/ ~OnlineIsValid(lv, dev.is_unlocked)
    [] action = "eject" -> ~DeviceTruthy(dev) \/ ~Truthy(dev.has_media)
    [] action = "detach" -> ~DeviceTruthy(dev)

\* ------------------------------------------------------------------ claims
\* C1: when the terminal notification of a mount job that was started for a
\* known, unmounted device arrives while the service reports the device
\* mounted, the success predicate sees the refreshed state: device_mounted
\* is published and job_failed is not.
C1_RefreshBeforeCheck ==
  LET p == last.signal.object_path
  IN  (/\ Terminal
       /\ last.recorded
       /\ last.resolved = "FilesystemMount"
       /\ p \in paths(_devices)
       /\ live[p].exists /\ live[p].DeviceIsMounted)
      => Published("device_mounted") /\ ~Published("job_failed")

\* C2: every terminal notification whose job kind resolves to an Action
\* publishes exactly one outcome event, whatever the Registry holds for the
\* device: <stem>ed if the Action's success predicate holds, job_failed
\* otherwise.
C2_ExactlyOneOutcome ==
  TerminalAction =>
    LET action == _action_mapping[last.resolved]
        dev == RegistryGet(_devices, last.signal.object_path)
    IN  /\ Len(last.published) = 1
        /\ last.published[1].name =
             IF TableSuccess(action, dev, live)
             THEN _event_mapping[action] \o "ed" ELSE "job_failed"

\* C3: after a terminal job-changed notification for an identifier, whether
\* it was reported as a success or as a failure, there is no Job entry for
\* that identifier.
C3_NoJobAfterTerminal ==
  (Terminal /\ last.published # <<>>) =>
    last.signal.object_path \notin DOMAIN _jobs

\* C4: a failed job publishes job_failed(device, "device_" + action, message)
\* with the message set_error registered for (id, action), or "" if none;
\* afterwards that slot is empty and every other slot is as it was.
C4_ErrorSlotConsumed ==
  [][LET sig == last'.signal
         p == sig.object_path
     IN  (/\ sig.signal = "DeviceJobChanged"
          /\ \E i \in 1..Len(last'.published) :
               last'.published[i].name = "job_failed")
         => LET action == _action_mapping[last'.resolved]
            IN  /\ last'.published =
                     <<[name |-> "job_failed",
                        args |-> <<RegistryGet(_devices, p),
                                   "device_" \o action,
                                   SlotMessage(_errors, action, p)>>]>>
                /\ p \notin DOMAIN _errors'[action]
                /\ \A a \in Actions :
                     \A q \in Ids :
                       (a # action \/ q # p) =>
                         /\ (q \in DOMAIN _errors'[a]) = (q \in DOMAIN _errors[a])
                         /\ q \in DOMAIN _errors[a] =>
                              _errors'[a][q] = _errors[a][q]]_vars

\* A job has failed with a registered message, and its slot is empty.
C4_Witness ==
  /\ Terminal
  /\ Len(last.published) = 1
  /\ last.published[1].name = "job_failed"
  /\ last.published[1].args[3] = "busy"
  /\ \A a \in Actions : DOMAIN _errors[a] = {}

\* C5, as claimed: device_removed for a device the Registry holds as valid
\* carries its last-known property values with the validity flag false, and
\* Registry.get then returns an invalid snapshot with those values.
C5_RemovedSnapshotInvalid ==
  [][LET sig == last'.signal
         p == sig.object_path
     IN  (sig.signal = "DeviceRemoved" /\ p \in paths(_devices))
         => LET invalid == [_devices[p] EXCEPT !.is_valid = FALSE]
            IN  /\ last'.published =
                     <<[name |-> "device_removed", args |-> <<invalid>>]>>
                /\ RegistryGet(_devices', p) = invalid]_vars

\* C5, amended: device_removed carries the snapshot the Registry held, its
\* property values and its validity flag (true) untouched; Registry.get then
\* returns an invalid snapshot with the same property values.
C5_RemovedSnapshotUntouched ==
  [][LET sig == last'.signal
         p == sig.object_path
     IN  (sig.signal = "DeviceRemoved" /\ p \in paths(_devices))
         => /\ last'.published =
                 <<[name |-> "device_removed", args |-> <<_devices[p]>>]>>
            /\ RegistryGet(_devices', p) =
                 [_devices[p] EXCEPT !.is_valid = FALSE]]_vars

\* A valid device has been removed: the event carries a valid snapshot and
\* the Registry holds an invalid one.
C5_Witness ==
  /\ last.signal.signal = "DeviceRemoved"
  /\ Len(last.published) = 1
  /\ DeviceTruthy(last.published[1].args[1])
  /\ last.signal.object_path \in DOMAIN _devices
  /\ ~_devices[last.signal.object_path].is_valid

\* C6: when a device-changed notification finds has_media gone from true to
\* false, device_changed and media_removed are both published and every
\* handler of device_changed is called before any handler of media_removed.
C6_ChangedBeforeMediaRemoved ==
  (/\ last.signal.signal = "DeviceChanged"
   /\ Published("device_changed")
   /\ last.published[1].args[1] # NoDevice
   /\ Truthy(last.published[1].args[1].has_media)
   /\ last.published[1].args[2].has_media = "False")
  => /\ Published("media_removed")
     /\ \A i, j \in 1..Len(last.delivered) :
          (/\ last.delivered[i].event.name = "device_changed"
           /\ last.delivered[j].event.name = "media_removed") => i < j

\* C7: the receivers of the four signals are registered only once _sync has
\* completed, and no event is published for a change of the service that
\* happened before _sync.
C7_SyncBeforeReceivers ==
  /\ receivers # {} => pc = "running"
  /\ last.published = <<>>

\* The 17 event names of the specification
SpecEventNames ==
  {"device_added", "device_removed", "device_changed", "device_mounting",
   "device_mounted", "device_unmounting", "device_unmounted",
   "device_locking", "device_locked", "device_unlocking", "device_unlocked",
   "device_changing", "media_adding", "media_added", "media_removing",
   "media_removed", "job_failed"}

C9_AccessorReadsRegistry ==
  \A p \in DOMAIN _devices :
    LET h == _devices[p]._luks_cleartext_holder
    IN  h \in DOMAIN _devices =>
          luks_cleartext_holder(_devices[p], live) = Observe(_devices[h])

Delivered(sig, names) == sig.signal \in names

KeysKept == pc = "running" => DOMAIN _devices \subseteq DOMAIN _devices'

\* C10, as claimed: after startup no key is lost, and the identifier of
\* every processed notification is a key afterwards.
C10_ObservedAreKeys ==
  [][/\ KeysKept
     /\ Delivered(last'.signal, SignalNames) =>
          last'.signal.object_path \in DOMAIN _devices']_vars

\* C10, amended: after startup no key is lost; the identifier of a processed
\* device-added or device-changed notification is a key afterwards, with a
\* valid or an invalid snapshot; device-removed and job-changed
\* notifications leave the key set as it was.
C10_AddedAndChangedAreKeys ==
  [][/\ KeysKept
     /\ Delivered(last'.signal, {"DeviceAdded", "DeviceChanged"}) =>
          /\ last'.signal.object_path \in DOMAIN _devices'
          /\ _devices'[last'.signal.object_path].is_valid \in BOOLEAN
     /\ Delivered(last'.signal, {"DeviceRemoved", "DeviceJobChanged"}) =>
          DOMAIN _devices' = DOMAIN _devices]_vars

\* A device-added notification for a path with no device has made the path
\* a key with an invalid snapshot, while the other path is still no key.
C10_Witness ==
  /\ last.signal.signal = "DeviceAdded"
  /\ last.signal.object_path \in DOMAIN _devices
  /\ ~_devices[last.signal.object_path].is_valid
  /\ DOMAIN _devices # Ids

\* The notifications that update or invalidate the Registry entry of p
UpdatesOrInvalidates(sig, p) ==
  /\ sig.signal \in {"DeviceAdded", "DeviceChanged", "DeviceRemoved"}
  /\ sig.object_path = p

\* C11: while a valid snapshot is the Registry's entry for an identifier,
\* every step that is no device-added, device-changed or device-removed
\* notification for that identifier (a job-changed notification for it, any
\* notification for another identifier, set_error, a change of the service)
\* leaves Registry.get(id) returning that snapshot.
C11_GetStable ==
  [][\A p \in DOMAIN _devices :
       (_devices[p].is_valid /\ ~UpdatesOrInvalidates(last'.signal, p))
       => RegistryGet(_devices', p) = _devices[p]]_vars

\* A job-changed notification has been processed for a valid device whose
\* state in the service is no longer the cached one: the snapshot stayed.
C11_Witness ==
  /\ last.signal.signal = "DeviceJobChanged"
  /\ last.published # <<>>
  /\ last.signal.object_path \in paths(_devices)
  /\ _devices[last.signal.object_path] #
       CachedDevice(live, last.signal.object_path)

\* C12: iterating the Registry yields exactly the identifiers whose current
\* snapshot is valid, and only valid devices; an identifier that has just
\* been removed, or updated while the service has no such device, is not
\* yielded.
C12_IterationOnlyValid ==
  LET p == last.signal.object_path
  IN  /\ paths(_devices) = {q \in DOMAIN _devices : _devices[q].is_valid}
      /\ \A dev \in __iter__(_devices) : dev.is_valid
      /\ {dev.object_path : dev \in __iter__(_devices)} = paths(_devices)
      /\ last.signal.signal = "DeviceRemoved" => p \notin paths(_devices)
      /\ (/\ last.signal.signal \in {"DeviceAdded", "DeviceChanged"}
          /\ ~live[p].exists) => p \notin paths(_devices)

\* A device has been removed and is still a key, and another device is
\* yielded.
C12_Witness ==
  /\ last.signal.signal = "DeviceRemoved"
  /\ last.signal.object_path \in DOMAIN _devices
  /\ paths(_devices) # {}

\* C13: invalidating twice gives the Registry that invalidating once gives;
\* invalidating an identifier that is no key or whose entry is already
\* invalid leaves the Registry (keys, validity, property values, iteration)
\* as it is, and so does a device-removed notification for it.
C13_InvalidateIdempotent ==
  [][\A p \in Ids :
       LET once == Store(_invalidate(Load(_devices), p))
           twice ==
             Store(_invalidate(_invalidate(Load(_devices), p), p))
       IN  /\ twice = once
           /\ (p \notin DOMAIN _devices \/ ~_devices[p].is_valid) =>
                /\ once = _devices
                /\ paths(once) = paths(_devices)
                /\ (/\ last'.signal.signal = "DeviceRemoved"
                    /\ last'.signal.object_path = p) => _devices' = _devices]_vars

\* A device-removed notification has been processed for an identifier whose
\* entry was invalid already.
C13_Witness ==
  /\ last.signal.signal = "DeviceRemoved"
  /\ Len(last.published) = 1
  /\ last.published[1].args[1] # NoDevice
  /\ ~last.published[1].args[1].is_valid

\* The property values an application reads from a snapshot; is_unlocked is
\* read as a truth value, which for the OnlineDevice it holds is that
\* device's is_valid in the service.
ScalarValues(dev, lv) ==
  [object_path |-> dev.object_path, is_valid |-> dev.is_valid,
   is_mounted |-> dev.is_mounted, has_media |-> dev.has_media,
   is_unlocked |-> OnlineIsValid(lv, dev.is_unlocked)]

\* C14: the property values of a snapshot object never change after its
\* creation: an object the Registry keeps reads the same after every step,
\* and the object a device-changed notification replaces reads, as the old
\* payload of device_changed, as it did in the Registry.
C14_SnapshotValuesFrozen ==
  [][\A p \in DOMAIN _devices :
       /\ ~UpdatesOrInvalidates(last'.signal, p) =>
            /\ p \in DOMAIN _devices'
            /\ ScalarValues(_devices'[p], live') =
                 ScalarValues(_devices[p], live)
       /\ (/\ last'.signal.signal = "DeviceChanged"
           /\ last'.signal.object_path = p) =>
            ScalarValues(last'.published[1].args[1], live') =
              ScalarValues(_devices[p], live)]_vars

\* C15: a terminal job-changed notification for a cached device that has no
\* recorded Job is classified by the job kind it carries and is handled
\* without an error: it publishes its one outcome event and the Job table
\* still has no entry for the device.
C15_TerminalWithoutJob ==
  LET p == last.signal.object_path
  IN  (/\ Terminal
       /\ ~last.recorded
       /\ last.signal.job_id \in DOMAIN _action_mapping
       /\ p \in DOMAIN _devices)
      => /\ last.resolved = last.signal.job_id
         /\ Len(last.published) = 1
         /\ last.raised = None
         /\ p \notin DOMAIN _jobs

\* C16: when a device-changed notification finds that a cached device is
\* gone from the service, no error is raised, the Registry entry is the
\* prior snapshot flagged invalid, and the new payload of device_changed
\* (what update returned) is what Registry.get returns afterwards.
C16_UpdateOfVanished ==
  LET p == last.signal.object_path
  IN  (/\ last.signal.signal = "DeviceChanged"
       /\ ~live[p].exists
       /\ Published("device_changed")
       /\ last.published[1].args[1] # NoDevice)
      => /\ last.raised = None
         /\ RegistryGet(_devices, p) =
              [last.published[1].args[1] EXCEPT !.is_valid = FALSE]
         /\ last.published[1].args[2] = RegistryGet(_devices, p)

HasMedia(dev) == dev # NoDevice /\ Truthy(dev.has_media)

\* C17: every device-changed notification, whatever the Registry held for
\* the identifier, is processed without an error, publishes device_changed
\* exactly once, media_added iff has_media went from false to true, and
\* media_removed iff it went from true to false.
C17_DeviceChangedAlways ==
  last.signal.signal = "DeviceChanged" =>
    /\ last.raised = None
    /\ Cardinality({i \in 1..Len(last.published) :
                      last.published[i].name = "device_changed"}) = 1
    /\ LET old == last.published[1].args[1]
           new == last.published[1].args[2]
       IN  /\ Published("media_added") <=> (~HasMedia(old) /\ HasMedia(new))
           /\ Published("media_removed") <=> (HasMedia(old) /\ ~HasMedia(new))

\* C18: an in-progress job-changed notification whose kind maps to an Action
\* publishes exactly one event, <stem>ing(device, percentage); afterwards the
\* Job table has for the identifier the Job of that kind and percentage, and
\* the other Job entries and the Registry are as they were.
C18_InProgressRecordsJob ==
  [][LET sig == last'.signal
         p == sig.object_path
     IN  (/\ sig.signal = "DeviceJobChanged"
          /\ sig.job_in_progress
          /\ sig.job_id \in DOMAIN _action_mapping)
         => /\ last'.published =
                 <<[name |-> _event_mapping[_action_mapping[sig.job_id]]
                               \o "ing",
                    args |-> <<RegistryGet(_devices, p),
                               sig.job_percentage>>]>>
            /\ last'.raised = None
            /\ p \in DOMAIN _jobs'
            /\ _jobs'[p] =
                 [job_id |-> sig.job_id, percentage |-> sig.job_percentage]
            /\ \A q \in Ids \ {p} :
                 /\ (q \in DOMAIN _jobs') = (q \in DOMAIN _jobs)
                 /\ q \in DOMAIN _jobs => _jobs'[q] = _jobs[q]
            /\ _devices' = _devices]_vars

\* An in-progress notification at 50 percent has overwritten the Job
\* recorded for the identifier.
C18_Witness ==
  /\ last.signal.signal = "DeviceJobChanged"
  /\ last.signal.job_in_progress
  /\ last.recorded
  /\ last.signal.job_percentage = 50
  /\ _jobs[last.signal.object_path] = Job(last.signal.job_id, 50)

\* C19: a job-changed notification whose kind maps to no Action, in progress
\* or terminal for an identifier without a recorded Job, publishes no event,
\* raises no error and leaves the Registry, the Job table and the error
\* slots as they were.
C19_UnknownKindIgnored ==
  [][LET sig == last'.signal
     IN  (/\ sig.signal = "DeviceJobChanged"
          /\ sig.job_id \notin DOMAIN _action_mapping
          /\ (sig.job_in_progress \/ sig.object_path \notin DOMAIN _jobs))
         => /\ last'.published = <<>>
            /\ last'.raised = None
            /\ _devices' = _devices
            /\ _jobs' = _jobs
            /\ _errors' = _errors]_vars

\* A terminal notification of an unknown kind has been processed for an
\* identifier that has no Job and a registered error message.
C19_Witness ==
  /\ Terminal
  /\ last.signal.job_id \notin DOMAIN _action_mapping
  /\ ~last.recorded
  /\ \E a \in Actions : last.signal.object_path \in DOMAIN _errors[a]

\* C20: a terminal job-changed notification that directly follows another
\* terminal notification for the same identifier, one that published its
\* outcome, is classified by the job kind it carries itself.
C20_EndedJobForgotten ==
  [][(/\ Terminal
      /\ last.published # <<>>
      /\ last'.signal.signal = "DeviceJobChanged"
      /\ ~last'.signal.job_in_progress
      /\ last'.signal.object_path = last.signal.object_path)
     => last'.resolved = last'.signal.job_id]_vars

\* C21: the message a job_failed event carries was registered by set_error
\* after the previous terminal notification of that action for the device;
\* in particular, after an unmount that was announced in progress and ended
\* in success, a later failure of an unmount of the device does not carry a
\* message registered before that success.
C21_MessageOfThisAttempt ==
  [][LET sig == last'.signal
         p == sig.object_path
     IN  (/\ sig.signal = "DeviceJobChanged"
          /\ Len(last'.published) = 1
          /\ last'.published[1].name = "job_failed"
          /\ last'.published[1].args[3] # "")
         => <<_action_mapping[last'.resolved], p>> \notin outlived]_vars

\* C22: while a handler of a device event runs, the Registry is the one the
\* notification leaves: for device_added and device_changed Registry.get(id)
\* returns the new snapshot the event carries when that is valid, and for
\* device_removed it returns an invalid snapshot or None.
C22_RegistryAheadOfEvent ==
  \A i \in 1..Len(last.delivered) :
    LET ev == last.delivered[i].event
        p == last.signal.object_path
        seen == RegistryGet(last.view, p)
    IN  /\ last.view = _devices
        /\ (ev.name = "device_added" /\ ev.args[1].is_valid) =>
             seen = ev.args[1]
        /\ (ev.name = "device_changed" /\ ev.args[2].is_valid) =>
             seen = ev.args[2]
        /\ ev.name = "device_removed" => ~DeviceTruthy(seen)

\* A handler of device_changed has been called with a valid new snapshot
\* that differs from the old one.
C22_Witness ==
  /\ last.delivered # <<>>
  /\ last.delivered[1].event.name = "device_changed"
  /\ last.delivered[1].event.args[2].is_valid
  /\ last.delivered[1].event.args[1] # last.delivered[1].event.args[2]

====
